---- MODULE Spec2Model ----
(***************************************************************************)
(* Portfolio optimisation engine of intro-course/week-2/risk_toolkit.py:   *)
(* portfolio_return, portfolio_vol, minimize_vol, optimal_weights, gmv,    *)
(* msr and the frontier part of plot_ef.                                   *)
(*                                                                         *)
(* Numbers.  Expected returns, covariances, risk-free rates are integers.  *)
(* A weight vector is a record [w, den]: the weights are w[i] / den.       *)
(* A target return is a rational [num, den].  A float result (a volatility *)
(* or a Sharpe objective) is a record [k, num, den]:                       *)
(*   k = "fin"   the real number v with  sign(v) * v^2 = num / den,        *)
(*               den > 0 (the square root is kept exact this way and the   *)
(*               order of two values is the order of their signed squares) *)
(*   k = "nan", "ninf", "pinf"   the IEEE values numpy produces            *)
(*   k = "ValueError"            the evaluation raised (matmul shapes).    *)
(*                                                                         *)
(* scipy.optimize.minimize(method='SLSQP') is a library: it is modelled by *)
(* its contract over the weight vectors representable with denominator     *)
(* den (the solver's tolerance).                                           *)
(***************************************************************************)
EXTENDS Integers, Sequences, FiniteSets, TLC

\* ---------------------------------------------------------------- bounds
MaxN == 2          \* assets in the universe: 1..MaxN
MaxRet == 2        \* expected returns are drawn from 1..MaxRet
MaxPoints == 3     \* n_points is drawn from 0..MaxPoints
Res == 2           \* base resolution of the representable weights

\* cov is drawn as <<d1, d2, o>>: cov[1][1] = d1, the other diagonal entries
\* d2, every off-diagonal entry o.  Positive definite (uncorrelated and
\* correlated), singular and negative definite (not PSD) matrices.
CovKinds == {<<1, 2, 0>>, <<2, 1, 0>>, <<1, 1, 0>>, <<2, 2, 1>>, <<1, 1, 1>>,
             <<0, 1, 0>>, <<-1, -1, 0>>}
RfVals == {0, 1}           \* risk-free rates
TargetVals == 0..(MaxRet + 1)   \* target returns of a direct minimize_vol call

\* ------------------------------------------------------------- the state
VARIABLES
    er,          \* expected-returns vector handed to the call
    cov,         \* covariance matrix handed to the call (rows of entries)
    op,          \* the function called: "none" before the call
    pc,          \* "idle", "sweep", "show_gmv", "returned", "raised"
    arg,         \* the call's other arguments
    den,         \* denominator of the representable weights for the call
    target_rs,   \* optimal_weights: the targets of the sweep
    w_list,      \* optimal_weights: the list `weights` built so far
    calls,       \* the solver invocations the call has made, in order
    ret_x,       \* results.x returned by minimize_vol, msr, gmv (w_gmv)
    ret_vol,     \* float returned by portfolio_vol (vol_gmv in plot_ef)
    err,         \* exception that left the call: "none" when there is none
    rets,        \* plot_ef: the Returns column
    vols         \* plot_ef: the Volatility column

vars == <<er, cov, op, pc, arg, den, target_rs, w_list, calls, ret_x,
          ret_vol, err, rets, vols>>

\* ------------------------------------------------------------ arithmetic
RECURSIVE SumTo(_, _)
SumTo(f, n) == IF n = 0 THEN 0 ELSE f[n] + SumTo(f, n - 1)

\* np.sum(weights)
Sum(s) == SumTo(s, Len(s))

Sgn(a) == IF a > 0 THEN 1 ELSE IF a < 0 THEN -1 ELSE 0

Min(a, b) == IF a <= b THEN a ELSE b
Max(a, b) == IF a >= b THEN a ELSE b

RECURSIVE SeqMin(_, _)
SeqMin(s, n) == IF n = 1 THEN s[1] ELSE Min(s[n], SeqMin(s, n - 1))
RECURSIVE SeqMax(_, _)
SeqMax(s, n) == IF n = 1 THEN s[1] ELSE Max(s[n], SeqMax(s, n - 1))

\* er.min(), er.max()
ErMin(e) == SeqMin(e, Len(e))
ErMax(e) == SeqMax(e, Len(e))

Fin(n, d) == [k |-> "fin", num |-> n, den |-> d]
NaN == [k |-> "nan", num |-> 0, den |-> 1]
NInf == [k |-> "ninf", num |-> 0, den |-> 1]
PInf == [k |-> "pinf", num |-> 0, den |-> 1]
Raised == [k |-> "ValueError", num |-> 0, den |-> 1]
NoVal == [k |-> "none", num |-> 0, den |-> 1]

\* a <= b on float values: every comparison with NaN is false
Leq(a, b) ==
    IF a.k \notin {"fin", "ninf", "pinf"} \/ b.k \notin {"fin", "ninf", "pinf"}
    THEN FALSE
    ELSE IF a.k = "ninf" \/ b.k = "pinf" THEN TRUE
    ELSE IF a.k = "pinf" \/ b.k = "ninf" THEN FALSE
    ELSE a.num * b.den <= b.num * a.den

Rat(n, d) == [num |-> n, den |-> d]
RatLt(a, b) == a.num * b.den < b.num * a.den
RatEq(a, b) == a.num * b.den = b.num * a.den

WVec(u, d) == [w |-> u, den |-> d]
NoWeights == WVec(<<>>, 1)

\* ------------------------------------------------------ portfolio metrics
\* weights.T @ returns on the numerators: the return is this over weights.den
Dot(a, b) == SumTo([i \in 1..Len(a) |-> a[i] * b[i]], Len(a))

portfolio_return(weights, returns) == Rat(Dot(weights.w, returns), weights.den)

Rows(m) == Len(m)
Cols(m) == Len(m[1])

\* numpy's matmul accepts (n,) @ (r,c) @ (n,) only when r = n and c = n
MatMulOk(u, covmat) == Len(u) = Rows(covmat) /\ Cols(covmat) = Len(u)

\* weights.T @ covmat @ weights on the numerators
Radicand(u, covmat) ==
    LET n == Len(u)
        row == [i \in 1..n |-> u[i] * Dot(covmat[i], u)]
    IN SumTo(row, n)

\* (weights.T @ covmat @ weights)**0.5 : a negative float64 to the power 0.5
\* is nan, no exception is raised
portfolio_vol(weights, covmat) ==
    IF ~MatMulOk(weights.w, covmat) THEN Raised
    ELSE LET rad == Radicand(weights.w, covmat)
         IN IF rad < 0 THEN NaN
            ELSE Fin(rad, weights.den * weights.den)

\* -(r - riskfree_rate)/vol with numpy's division: x/0 is +-inf, 0/0 is nan
neg_sharpe_ratio(weights, riskfree_rate, e, covmat) ==
    LET r == portfolio_return(weights, e)
        vol == portfolio_vol(weights, covmat)
        ex == r.num - riskfree_rate * r.den      \* (r - rf) * weights.den
    IN IF vol.k = "ValueError" THEN Raised
       ELSE IF vol.k = "nan" THEN NaN
       ELSE IF vol.num = 0
            THEN (IF ex = 0 THEN NaN ELSE IF ex > 0 THEN NInf ELSE PInf)
       ELSE Fin(-Sgn(ex) * ex * ex, vol.num)

\* ------------------------------------------------------------ the solver
\* np.repeat(1/n, n)
EqualWeights(n) == WVec([i \in 1..n |-> 1], n)

\* bounds = ((0.0, 1.0),) * n : the representable vectors inside the bounds
Box(n, d) == [1..n -> 0..d]

\* the vectors of Box(n, d) whose entries add up to t (enumerated directly)
RECURSIVE BoxSum(_, _, _)
BoxSum(n, d, t) ==
    IF n = 1 THEN (IF t <= d THEN {<<t>>} ELSE {})
    ELSE UNION {{Append(p, k) : p \in BoxSum(n - 1, d, t - k)} :
                   k \in 0..Min(d, t)}

\* What a solve that did not converge leaves in results.x is its last
\* iterate, which the contract does not determine: the untouched initial
\* guess, or another point of the bounds (the lower corner stands for them).
LastIterates(x0, n, d) == {x0, WVec([i \in 1..n |-> 0], d)}

\* squared distance between u / d and x0, scaled by (d * x0.den)^2
Dist2(u, d, x0) ==
    SumTo([i \in 1..Len(u) |->
              (u[i] * x0.den - x0.w[i] * d) * (u[i] * x0.den - x0.w[i] * d)],
          Len(u))

\* the points p[1] of vals, a set of <<point, value>>, whose value is least
ArgMin(vals) ==
    {p[1] : p \in {q \in vals : \A r \in vals : Leq(q[2], r[2])}}

\* the points of best nearest to x0
Nearest(best, d, x0) ==
    {u \in best : \A v \in best : Dist2(u, d, x0) <= Dist2(v, d, x0)}

\* scipy.optimize.minimize(fun, x0, method='SLSQP', constraints, bounds).
\* The objective is first evaluated at x0 (an exception there propagates).
\* When the constraints can be met and the objective is a number (not nan)
\* wherever they are met, the result is a minimiser with success = True
\* (of several minimisers, one nearest to x0: the search is local and
\* starts there); otherwise the result has success = False and x is the
\* last iterate.  Both callers
\* constrain the weights to sum to 1, so the candidates inside the bounds are
\* enumerated on that plane.
\* fun and constraints are given by their values on the vectors inside the
\* bounds that sum to 1, fun_x0 is fun(x0).
minimize(fun_x0, fun, constraints, x0, n, d) ==
    IF fun_x0.k = "ValueError"
    THEN {[k |-> "ValueError", x |-> NoWeights, success |-> FALSE]}
    ELSE LET feas == {u \in BoxSum(n, d, d) : constraints[u]}
             vals == {<<u, fun[u]>> : u \in feas}
         IN IF feas # {} /\ \A p \in vals : p[2].k # "nan"
            THEN {[k |-> "ok", x |-> WVec(u, d), success |-> TRUE] :
                     u \in Nearest(ArgMin(vals), d, x0)}
            ELSE {[k |-> "ok", x |-> y, success |-> FALSE] :
                     y \in LastIterates(x0, n, d)}

\* One solver invocation as the caller sees it (results.x or the exception)
\* together with what was handed to the solver and the flag results.success,
\* which the callers never read.
Solve(o, fun, x0, e, covmat, rf, target) ==
    [k |-> o.k, x |-> o.x, success |-> o.success, fun |-> fun, x0 |-> x0,
     er |-> e, cov |-> covmat, rf |-> rf, target |-> target]

weights_sum_to_1(weights) == Sum(weights.w) - weights.den = 0

\* a solve that starts where the previous solve of the sweep ended
minimize_vol_warm_start(n) ==
    IF w_list # <<>> THEN w_list[Len(w_list)] ELSE EqualWeights(n)

\* init_guess = np.repeat(1/n, n)
minimize_vol_init_guess(n) == EqualWeights(n)

minimize_vol(target_return, e, covmat, d) ==
    LET n == Len(e)
        init_guess == minimize_vol_init_guess(n)
        return_is_target(weights) ==
            RatEq(target_return, portfolio_return(weights, e))
        results ==
            minimize(portfolio_vol(init_guess, covmat),
                     [u \in BoxSum(n, d, d) |-> portfolio_vol(WVec(u, d), covmat)],
                     [u \in BoxSum(n, d, d) |->
                         /\ return_is_target(WVec(u, d))
                         /\ weights_sum_to_1(WVec(u, d))],
                     init_guess, n, d)
    IN {Solve(o, "portfolio_vol", init_guess, e, covmat, 0, target_return) :
            o \in results}

msr(riskfree_rate, e, covmat, d) ==
    LET n == Len(e)
        init_guess == EqualWeights(n)
        results ==
            minimize(neg_sharpe_ratio(init_guess, riskfree_rate, e, covmat),
                     [u \in BoxSum(n, d, d) |->
                         neg_sharpe_ratio(WVec(u, d), riskfree_rate, e, covmat)],
                     [u \in BoxSum(n, d, d) |-> weights_sum_to_1(WVec(u, d))],
                     init_guess, n, d)
    IN {Solve(o, "neg_sharpe_ratio", init_guess, e, covmat, riskfree_rate,
              Rat(0, 1)) : o \in results}

\* a gmv that hands the solver expected returns that are not uniform
gmv_nonuniform(covmat, d) ==
    LET n == Rows(covmat)
    IN msr(0, [i \in 1..n |-> i], covmat, d)

\* msr(0, np.repeat(1, n), cov) with n = cov.shape[0]
gmv(covmat, d) ==
    LET n == Rows(covmat)
    IN msr(0, [i \in 1..n |-> 1], covmat, d)

\* np.linspace(start, stop, num, endpoint=False): stop is left out
linspace_open(start, stop, num) ==
    IF num = 0 THEN <<>>
    ELSE [i \in 1..num |-> Rat(start * num + (i - 1) * (stop - start), num)]

\* np.linspace(start, stop, num): num points, the last one set to stop
linspace(start, stop, num) ==
    IF num = 0 THEN <<>>
    ELSE IF num = 1 THEN <<Rat(start, 1)>>
    ELSE LET div == num - 1
         IN [i \in 1..num |->
                IF i = num THEN Rat(stop, 1)
                ELSE Rat(start * div + (i - 1) * (stop - start), div)]

\* Denominator of the representable weights for a call, fine enough that
\* every target between er.min() and er.max() the call can ask for is met by
\* a representable portfolio: a whole target needs a multiple of the spread
\* of er, the i-th target of a sweep a multiple of n_points - 1.
DirectDen(e) ==
    Res * (IF ErMax(e) = ErMin(e) THEN 1 ELSE ErMax(e) - ErMin(e))

SweepDen(n_points) == Res * (IF n_points <= 1 THEN 1 ELSE n_points - 1)

\* ------------------------------------------------------------ the inputs
NoArg == [target |-> 0, rf |-> 0, n_points |-> 0, show_gmv |-> FALSE,
          w |-> NoWeights]

\* the inputs a caller may hand in
ErSet == UNION {[1..n -> 1..MaxRet] : n \in 1..MaxN}

Mat(r, c, d1, d2, o) ==
    [i \in 1..r |-> [j \in 1..c |->
        IF i = j THEN (IF i = 1 THEN d1 ELSE d2) ELSE o]]

SquareCovs == {Mat(n, n, c[1], c[2], c[3]) : n \in 1..MaxN, c \in CovKinds}

SkewCovs == {Mat(r, c, 1, 1, 0) : r \in 1..MaxN, c \in 1..MaxN} \ SquareCovs

CovSet == SquareCovs \cup SkewCovs

Init ==
    /\ er \in ErSet
    /\ cov \in CovSet
    /\ op = "none"
    /\ pc = "idle"
    /\ arg = NoArg
    /\ den = 1
    /\ target_rs = <<>>
    /\ w_list = <<>>
    /\ calls = <<>>
    /\ ret_x = NoWeights
    /\ ret_vol = NoVal
    /\ err = "none"
    /\ rets = <<>>
    /\ vols = <<>>

\* ------------------------------------------------------------ the calls
\* portfolio_vol(weights, covmat) called directly
CallPortfolioVol ==
    /\ pc = "idle"
    /\ \E u \in BoxSum(Len(er), Res, Res) :
         LET wv == WVec(u, Res)
             v == portfolio_vol(wv, cov)
         IN /\ op' = "portfolio_vol"
            /\ arg' = [NoArg EXCEPT !.w = wv]
            /\ pc' = IF v.k = "ValueError" THEN "raised" ELSE "returned"
            /\ err' = IF v.k = "ValueError" THEN "ValueError" ELSE "none"
            /\ ret_vol' = IF v.k = "ValueError" THEN NoVal ELSE v
    /\ UNCHANGED <<er, cov, den, target_rs, w_list, calls, ret_x, rets, vols>>

\* a call that is one solver invocation returning results.x
Single(name, a, d, outcomes) ==
    /\ pc = "idle"
    /\ \E o \in outcomes :
         /\ op' = name
         /\ arg' = a
         /\ den' = d
         /\ calls' = Append(calls, o)
         /\ pc' = IF o.k = "ValueError" THEN "raised" ELSE "returned"
         /\ err' = IF o.k = "ValueError" THEN "ValueError" ELSE "none"
         /\ ret_x' = o.x
    /\ UNCHANGED <<er, cov, target_rs, w_list, ret_vol, rets, vols>>

CallMinimizeVol ==
    \E t \in TargetVals :
        LET d == DirectDen(er)
        IN Single("minimize_vol", [NoArg EXCEPT !.target = t], d,
                  minimize_vol(Rat(t, 1), er, cov, d))

CallMsr ==
    \E rf \in RfVals :
        LET d == DirectDen(er)
        IN Single("msr", [NoArg EXCEPT !.rf = rf], d, msr(rf, er, cov, d))

CallGmv == Single("gmv", NoArg, Res, gmv(cov, Res))

\* optimal_weights(er, cov, n_points): target_rs = np.linspace(...), then the
\* list comprehension, one minimize_vol per step of the sweep
optimal_weights_begin(name, n_points, show_gmv) ==
    /\ pc = "idle"
    /\ op' = name
    /\ arg' = [NoArg EXCEPT !.n_points = n_points, !.show_gmv = show_gmv]
    /\ den' = SweepDen(n_points)
    /\ target_rs' = linspace(ErMin(er), ErMax(er), n_points)
    /\ w_list' = <<>>
    /\ pc' = "sweep"
    /\ UNCHANGED <<er, cov, calls, ret_x, ret_vol, err, rets, vols>>

CallOptimalWeights ==
    \E n_points \in 0..MaxPoints :
        optimal_weights_begin("optimal_weights", n_points, FALSE)

\* plot_ef(er, cov, n_points, show_gmv=...) begins with optimal_weights
CallPlotEf ==
    \E n_points \in 0..MaxPoints, show_gmv \in BOOLEAN :
        optimal_weights_begin("plot_ef", n_points, show_gmv)

SweepStep ==
    /\ pc = "sweep"
    /\ Len(w_list) < Len(target_rs)
    /\ \E o \in minimize_vol(target_rs[Len(w_list) + 1], er, cov, den) :
         /\ calls' = Append(calls, o)
         /\ IF o.k = "ValueError"
            THEN /\ pc' = "raised"
                 /\ err' = "ValueError"
                 /\ w_list' = w_list
            ELSE /\ pc' = "sweep"
                 /\ err' = err
                 /\ w_list' = Append(w_list, o.x)
    /\ UNCHANGED <<er, cov, op, arg, den, target_rs, ret_x, ret_vol, rets,
                   vols>>

\* optimal_weights returns the list
OptimalWeightsReturn ==
    /\ pc = "sweep"
    /\ op = "optimal_weights"
    /\ Len(w_list) = Len(target_rs)
    /\ pc' = "returned"
    /\ UNCHANGED <<er, cov, op, arg, den, target_rs, w_list, calls, ret_x,
                   ret_vol, err, rets, vols>>

\* plot_ef after optimal_weights: the two columns of the frontier
PlotEfFrontier ==
    /\ pc = "sweep"
    /\ op = "plot_ef"
    /\ Len(w_list) = Len(target_rs)
    /\ rets' = [i \in 1..Len(w_list) |-> portfolio_return(w_list[i], er)]
    /\ vols' = [i \in 1..Len(w_list) |-> portfolio_vol(w_list[i], cov)]
    /\ pc' = IF arg.show_gmv THEN "show_gmv" ELSE "returned"
    /\ UNCHANGED <<er, cov, op, arg, den, target_rs, w_list, calls, ret_x,
                   ret_vol, err>>

\* plot_ef, show_gmv: w_gmv = gmv(cov); vol_gmv = portfolio_vol(w_gmv, cov)
PlotEfGmv ==
    /\ pc = "show_gmv"
    /\ \E o \in gmv(cov, den) :
         /\ calls' = Append(calls, o)
         /\ pc' = IF o.k = "ValueError" THEN "raised" ELSE "returned"
         /\ err' = IF o.k = "ValueError" THEN "ValueError" ELSE "none"
         /\ ret_x' = o.x
         /\ ret_vol' = IF o.k = "ValueError" THEN NoVal
                       ELSE portfolio_vol(o.x, cov)
    /\ UNCHANGED <<er, cov, op, arg, den, target_rs, w_list, rets, vols>>

Next ==
    \/ CallPortfolioVol
    \/ CallMinimizeVol
    \/ CallMsr
    \/ CallGmv
    \/ CallOptimalWeights
    \/ CallPlotEf
    \/ SweepStep
    \/ OptimalWeightsReturn
    \/ PlotEfFrontier
    \/ PlotEfGmv

Spec == Init /\ [][Next]_vars

\* ------------------------------------------------------------ the claims
LastCall == calls[Len(calls)]

\* the shapes the spec calls a ShapeError
Mismatch == Len(er) # Rows(cov) \/ Rows(cov) # Cols(cov)

\* a covariance under which every portfolio has a positive variance, so that
\* every objective is finite and a solve fails only for an infeasible target
RegularCov ==
    /\ ~Mismatch
    /\ \A u \in BoxSum(Len(er), 2 * Res, 2 * Res) : Radicand(u, cov) > 0

InBounds(v) == \A i \in 1..Len(v.w) : 0 <= v.w[i] /\ v.w[i] <= v.den

\* C1 (as claimed; regular covariances suffice): when the solver of
\* minimize_vol or msr does not converge the call fails with an
\* OptimizationError, and the caller receives no weight vector.
C1_NonConvergedRaises ==
    (/\ op \in {"minimize_vol", "msr"}
     /\ pc \in {"returned", "raised"}
     /\ RegularCov
     /\ ~LastCall.success)
    => (pc = "raised" /\ err = "OptimizationError")

\* C2 (as claimed; regular covariances suffice): every weight vector
\* minimize_vol returns has weights in [0, 1] that sum to 1 and a portfolio
\* return equal to the target, for feasible and infeasible targets alike.
C2_ReturnedMeetsConstraints ==
    (op = "minimize_vol" /\ pc = "returned" /\ RegularCov)
    => /\ weights_sum_to_1(ret_x)
       /\ RatEq(portfolio_return(ret_x, er), Rat(arg.target, 1))
       /\ InBounds(ret_x)

\* the frontier has been built for n_points >= 1 points
SweepDone ==
    /\ arg.n_points >= 1
    /\ \/ op = "optimal_weights" /\ pc = "returned"
       \/ op = "plot_ef" /\ Len(vols) = arg.n_points

\* exactly n_points results, result i the one of target i, the targets going
\* from er.min() to er.max() (n_points = 1: er.min() alone)
SweepShape ==
    LET n == arg.n_points
    IN /\ Len(target_rs) = n
       /\ Len(w_list) = n
       /\ \A i \in 1..n :
            calls[i].target = target_rs[i] /\ calls[i].x = w_list[i]
       /\ RatEq(target_rs[1], Rat(ErMin(er), 1))
       /\ n >= 2 => RatEq(target_rs[n], Rat(ErMax(er), 1))
       /\ op = "plot_ef" => Len(rets) = n

\* C3 (as claimed): optimal_weights returns n_points results in sweep order
\* and consecutive targets are strictly increasing for every er, also one
\* whose entries are all equal.
C3_TargetsStrictlyIncreasing ==
    SweepDone =>
        /\ SweepShape
        /\ \A i \in 1..(Len(target_rs) - 1) :
             RatLt(target_rs[i], target_rs[i + 1])

\* C3 (amended): optimal_weights returns n_points results in sweep order;
\* consecutive targets never decrease, they are strictly increasing when
\* er.min() < er.max(), and all equal er.min() when the entries of er are
\* all equal.
C3_TargetsIncreasing ==
    SweepDone =>
        /\ SweepShape
        /\ \A i \in 1..(Len(target_rs) - 1) :
             /\ ~RatLt(target_rs[i + 1], target_rs[i])
             /\ ErMin(er) < ErMax(er) => RatLt(target_rs[i], target_rs[i + 1])
             /\ ErMin(er) = ErMax(er) => RatEq(target_rs[i], target_rs[i + 1])

C3_Witness ==
    /\ op = "optimal_weights"
    /\ pc = "returned"
    /\ Len(w_list) >= 3
    /\ ErMin(er) < ErMax(er)

\* C4 (as claimed): the volatility of gmv(cov) is at most the volatility of
\* every weight vector optimal_weights returned for the same er and cov.
C4_GmvBelowFrontier ==
    (op = "plot_ef" /\ pc = "returned" /\ arg.show_gmv)
    => \A i \in 1..Len(vols) : Leq(ret_vol, vols[i])

\* gmv has run: called directly, or as the last solve of plot_ef(show_gmv)
GmvCalled ==
    /\ pc \in {"returned", "raised"}
    /\ \/ op = "gmv"
       \/ op = "plot_ef" /\ arg.show_gmv /\ Len(calls) = Len(target_rs) + 1

\* C5: gmv(cov) is one invocation of the Maximum-Sharpe-Ratio solver with
\* risk-free rate 0 and a uniform expected-returns vector of length
\* cov.shape[0], it returns what that invocation returns, and under those
\* arguments the Sharpe objective orders the weight vectors that sum to 1
\* exactly as portfolio_vol orders them.
C5_GmvIsMsrSpecialCase ==
    GmvCalled =>
        LET c == LastCall
            n == Rows(cov)
            cand == {WVec(u, 2 * Res) : u \in BoxSum(n, 2 * Res, 2 * Res)}
        IN /\ c.fun = "neg_sharpe_ratio"
           /\ c.rf = 0
           /\ c.cov = cov
           /\ Len(c.er) = n
           /\ \A i \in 1..n : c.er[i] = c.er[1]
           /\ c \in msr(0, c.er, cov, den)
           /\ pc = "returned" => ret_x = c.x
           /\ Cols(cov) = n =>
                LET tab == {<<neg_sharpe_ratio(w, c.rf, c.er, cov),
                              portfolio_vol(w, cov)>> : w \in cand}
                IN \A a \in tab, b \in tab :
                       Leq(a[1], b[1]) <=> Leq(a[2], b[2])

C5_Witness ==
    /\ op = "gmv"
    /\ pc = "returned"
    /\ Rows(cov) >= 2
    /\ LastCall.success
    /\ ret_x.w[1] > 0
    /\ ret_x.w[2] > 0

\* C6 (as claimed): portfolio_vol fails with a NumericalError when the
\* radicand is negative, and a value it returns is a number >= 0.
C6_NegativeRadicandRaises ==
    (op = "portfolio_vol" /\ pc \in {"returned", "raised"} /\ ~Mismatch)
    => /\ Radicand(arg.w.w, cov) < 0
            => (pc = "raised" /\ err = "NumericalError")
       /\ pc = "returned" => (ret_vol.k = "fin" /\ ret_vol.num >= 0)

\* C7 (as claimed): with mismatched shapes minimize_vol, msr and
\* optimal_weights fail with a ShapeError before the solver has evaluated
\* the objective, and never return a result.
C7_ShapeErrorBeforeSolve ==
    (/\ op \in {"minimize_vol", "msr", "optimal_weights"}
     /\ pc \in {"returned", "raised"}
     /\ Mismatch)
    => (pc = "raised" /\ err = "ShapeError" /\ calls = <<>>)

\* C8 (as claimed, for a 1 x 1 covariance with a positive variance): with a
\* single asset minimize_vol returns [1.0] when the target is er[0] and
\* fails with an OptimizationError for every other target.
C8_SingleAsset ==
    (/\ op = "minimize_vol"
     /\ pc \in {"returned", "raised"}
     /\ Len(er) = 1
     /\ RegularCov)
    => IF arg.target = er[1]
       THEN pc = "returned" /\ ret_x.w[1] = ret_x.den
       ELSE pc = "raised" /\ err = "OptimizationError"

\* C9 (as claimed): the list optimal_weights returns holds no entry of a
\* point whose solve failed: none that did not converge, none whose
\* volatility is not a number.
C9_NoSilentFailedPoint ==
    (op = "optimal_weights" /\ pc = "returned")
    => \A i \in 1..Len(w_list) :
           calls[i].success /\ portfolio_vol(w_list[i], cov).k = "fin"

====
